---- MODULE Spec2Model ----
(***************************************************************************)
(* A model of the fossen.js helpers (src/fossen.js).  Each helper has its  *)
(* own specification over the state all of them share:                     *)
(*   SpecRetryOne one retry sequence, its timers and the load event        *)
(*   SpecRetry    two retry sequences under every interleaving             *)
(*   SpecAjax     one ajax request and the events of its transport         *)
(*   SpecMemoize  one memoized function and the calls made to it           *)
(*   SpecOverride one invocation of a function made by override            *)
(*   SpecThrottle one throttled wrapper, its timer and the clock           *)
(*   SpecDebounce one debounced wrapper, its timer and the clock           *)
(*   SpecGeometry offset, isOutOfView and scrollY on one page              *)
(*   SpecUnique   one call of unique                                       *)
(*   SpecConcat   one call of concatUrls                                   *)
(***************************************************************************)
EXTENDS Integers, Sequences, FiniteSets, TLC

\* ------------------------------------------------------------- bounds
\* attempts arguments range over 0..MaxAttempts (0 stands for a falsy or
\* absent argument), delay arguments over 0..MaxDelay.
MaxAttempts == 3
MaxDelay == 2
\* With two retry sequences, attempts arguments range over 1..MaxPairAttempts.
MaxPairAttempts == 2
\* The calls made to the memoized function.
MaxCalls == 3

\* The arguments spy is invoked with: at most MaxArgs of them.
MaxArgs == 2
\* The steps overrider takes on the state before it returns.
MaxOverriderSteps == 3

\* throttleAmount and duration range over 0..MaxWindow.
MaxWindow == 2
\* The clock of the wrappers runs from 0 to MaxTicks.
MaxTicks == 4
\* The calls made to a throttled or debounced wrapper.
MaxWrapperCalls == 3

\* el.offsetLeft and el.offsetTop range over -1..MaxCoord.
MaxCoord == 3
\* el.offsetWidth and el.offsetHeight range over 1..MaxSize.
MaxSize == 1
\* The offsets and scroll positions of el's ancestors, and padding, range
\* over 0..MaxShift.
MaxShift == 1

\* The arrays passed to unique have at most MaxElems elements.
MaxElems == 4

\* concatUrls gets 1..MaxFragments fragments of at most MaxFragLen characters.
MaxFragments == 3
MaxFragLen == 2

\* ---------------------------------------------------------- constants
defaultAttempts == 5
defaultDelay == 100

\* The retry sequences (separate calls of the exported retry).
Seqs == {"s1", "s2"}
\* What func returns when it does not throw.
Values == {"v"}
\* The outcome of one invocation of func.
Outcomes == {"throw"} \cup Values

VARIABLES
    readyState,     \* document.readyState
    loadFired,      \* the window load event has been dispatched
    now,            \* the clock, in ms
    args,           \* per sequence: the arguments retry was called with
    data,           \* per sequence: the data record of the retry closure
    deferred,       \* per sequence: data.deferred ($.Deferred())
    timers,         \* the pending setTimeout timers
    nextHandle,     \* the handle the next setTimeout returns
    loadListeners,  \* per sequence: pending one-shot load listeners
    calls           \* per sequence: the invocations of func so far

retryVars == <<readyState, loadFired, now, args, data, deferred, timers,
               nextHandle, loadListeners, calls>>

VARIABLES
    host,           \* the browser: which request objects and FormData it has
    params,         \* the options ajax was called with
    phase,          \* "idle" before the call, "sent" after send, "done" after completion
    reqKind,        \* the request object getRequest returned
    req,            \* the fields of the request object the code reads
    reqMethod,      \* the method passed to req.open
    reqHeaders,     \* the headers passed to req.setRequestHeader
    reqBody,        \* the body passed to req.send
    called,         \* the called flag of the ajax closure
    cbLog,          \* the invocations of callback so far
    events,         \* the events the transport still has to dispatch, in order
    outcome,        \* how the request ended: Success, Error, Timeout, Abort
    fired,          \* completion events dispatched so far
    uncaught        \* exceptions that left an event handler

ajaxVars == <<host, params, phase, reqKind, req, reqMethod, reqHeaders, reqBody,
              called, cbLog, events, outcome, fired, uncaught>>

VARIABLES
    cache,            \* the cache object of the memoize closure: its own properties
    undefinedResult,  \* the stored result for the key undefined
    nullResult,       \* the stored result for the key null
    memoLog           \* the calls of the memoized function so far

memoizeVars == <<cache, undefinedResult, nullResult, memoLog>>

VARIABLES
    ovPhase,        \* "idle" before spy is invoked, "inG" while overrider runs, "done"
    ovHeap,         \* the arrays allocated so far; a reference is an index
    spy,            \* the closure of one spy invocation: its variables
    gSees,          \* what the overrider has made of state.thisArg and state.argsAsArray
    gLog,           \* the invocations of overrider so far
    fLog,           \* the invocations of funcToOverride so far
    gResult,        \* what overrider returned
    spyResult       \* what spy returned

overrideVars == <<ovPhase, ovHeap, spy, gSees, gLog, fLog, gResult, spyResult>>

VARIABLES
    thMade,         \* throttle(func, throttleAmount) has been called
    thAmount,       \* throttleAmount
    thTimeout,      \* the timeout variable of the throttle closure
    thTimers,       \* the pending timers the wrapper has set
    thNextHandle,   \* the handle the next setTimeout returns
    thNow,          \* the clock, in ms
    thCalls,        \* the calls of the wrapper so far
    thLog           \* the invocations of func so far

throttleVars == <<thMade, thAmount, thTimeout, thTimers, thNextHandle, thNow,
                  thCalls, thLog>>

VARIABLES
    dbMade,         \* debounce(func, duration) has been called
    dbDuration,     \* duration
    dbTimeout,      \* the timeout variable of the debounce closure
    dbTimers,       \* the pending timers the wrapper has set
    dbNextHandle,   \* the handle the next setTimeout returns
    dbNow,          \* the clock, in ms
    dbEvents        \* the wrapper calls and the invocations of func so far, in order

debounceVars == <<dbMade, dbDuration, dbTimeout, dbTimers, dbNextHandle, dbNow,
                  dbEvents>>

VARIABLES
    dom,            \* per element: its offset and scroll properties
    geoCall,        \* the latest call of offset, isOutOfView or scrollY
    geoBefore,      \* dom as it was when that call was made
    geoOffset,      \* what the latest call of offset returned
    geoOutOfView    \* what the latest call of isOutOfView returned

geometryVars == <<dom, geoCall, geoBefore, geoOffset, geoOutOfView>>

VARIABLES
    uqStatus,       \* "idle", "running" inside forEach, "returned" or "threw"
    uqArr,          \* arr
    uqIdx,          \* the elements of arr forEach has visited
    uqCache,        \* cache: the names of its own properties
    uqOut           \* uniqueArray

uniqueVars == <<uqStatus, uqArr, uqIdx, uqCache, uqOut>>

VARIABLES
    cuStatus,       \* "idle", "running" inside forEach, or "returned"
    cuArguments,    \* the arguments concatUrls was called with
    cuFragments,    \* fragments, after line 186
    cuIdx,          \* the fragments handled so far
    cuString,       \* cString
    cuResult        \* what concatUrls returned

concatVars == <<cuStatus, cuArguments, cuFragments, cuIdx, cuString, cuResult>>

vars == <<retryVars, ajaxVars, memoizeVars, overrideVars,
         throttleVars, debounceVars, geometryVars, uniqueVars,
         concatVars>>

\* What the actions of one helper leave alone: the state of the others.
retryFrame == UNCHANGED <<ajaxVars, memoizeVars, overrideVars, throttleVars,
                          debounceVars, geometryVars, uniqueVars, concatVars>>
ajaxFrame == UNCHANGED <<retryVars, memoizeVars, overrideVars, throttleVars,
                         debounceVars, geometryVars, uniqueVars, concatVars>>
memoizeFrame == UNCHANGED <<retryVars, ajaxVars, overrideVars, throttleVars,
                            debounceVars, geometryVars, uniqueVars, concatVars>>
overrideFrame == UNCHANGED <<retryVars, ajaxVars, memoizeVars, throttleVars,
                             debounceVars, geometryVars, uniqueVars, concatVars>>
throttleFrame == UNCHANGED <<retryVars, ajaxVars, memoizeVars, overrideVars,
                             debounceVars, geometryVars, uniqueVars, concatVars>>
debounceFrame == UNCHANGED <<retryVars, ajaxVars, memoizeVars, overrideVars,
                             throttleVars, geometryVars, uniqueVars, concatVars>>
geometryFrame == UNCHANGED <<retryVars, ajaxVars, memoizeVars, overrideVars,
                             throttleVars, debounceVars, uniqueVars, concatVars>>
uniqueFrame == UNCHANGED <<retryVars, ajaxVars, memoizeVars, overrideVars,
                           throttleVars, debounceVars, geometryVars, concatVars>>
concatFrame == UNCHANGED <<retryVars, ajaxVars, memoizeVars, overrideVars,
                           throttleVars, debounceVars, geometryVars, uniqueVars>>

\* ============================================================== retry
\* x || d for a numeric x: 0 is falsy.
\* Variant: the argument is ignored and the default always used.
OrDefaultIgnored(x, d) == d

OrDefault(x, d) == IF x # 0 THEN x ELSE d

\* afterLoad: document.readyState === 'complete' ? false : !!afterLoad
InitialAfterLoad(rs, afterLoad) == IF rs = "complete" THEN FALSE ELSE afterLoad

\* timeout: null (setTimeout handles are positive).
nullTimeout == 0

\* The data record the exported retry builds.
NewData(afterLoad, attempts, delay, rs) ==
    [started     |-> TRUE,
     attemptsLeft |-> OrDefault(attempts, defaultAttempts),
     delay       |-> OrDefault(delay, defaultDelay),
     afterLoad   |-> InitialAfterLoad(rs, afterLoad),
     timeout     |-> nullTimeout]

NoData ==
    [started |-> FALSE, attemptsLeft |-> 0, delay |-> 0,
     afterLoad |-> FALSE, timeout |-> nullTimeout]

NoArgs == [afterLoad |-> FALSE, attempts |-> 0, delay |-> 0, complete |-> FALSE]

\* $.Deferred(): state, payload and the operations performed on it.
NewDeferred == [state |-> "pending", value |-> "undefined", ops |-> <<>>]

\* deferred.resolve(v): settles a pending deferred, has no effect on a settled one.
resolve(df, v) ==
    [state |-> IF df.state = "pending" THEN "resolved" ELSE df.state,
     value |-> IF df.state = "pending" THEN v ELSE df.value,
     ops   |-> Append(df.ops, "resolve")]

\* deferred.reject(): no payload.
reject(df) ==
    [state |-> IF df.state = "pending" THEN "rejected" ELSE df.state,
     value |-> IF df.state = "pending" THEN "undefined" ELSE df.value,
     ops   |-> Append(df.ops, "reject")]

\* setTimeout(retry.bind(void 0, data), delay) at time t, returning handle h.
setTimeout(tm, h, s, delay, t) ==
    tm \cup {[handle |-> h, seq |-> s, delay |-> delay, setAt |-> t, due |-> t + delay]}

\* clearTimeout(h)
clearTimeout(tm, h) == {x \in tm : x.handle # h}

\* Variant: attemptsLeft is one counter shared by all sequences.
DecrementShared(dt, s) ==
    [q \in DOMAIN dt |->
        IF dt[q].started THEN [dt[q] EXCEPT !.attemptsLeft = @ - 1] ELSE dt[q]]

\* data.attemptsLeft--
DecrementAttempts(dt, s) == [dt EXCEPT ![s].attemptsLeft = @ - 1]

\* Variant: the document state is not looked at.
DeferToLoadAlways(afterLoad, rs) == afterLoad

\* data.afterLoad && document.readyState !== 'complete'
DeferToLoad(afterLoad, rs) == afterLoad /\ rs # "complete"

\* Variant: the last attempt is given up.
ShouldScheduleOffByOne(attemptsLeft) == attemptsLeft > 1

\* data.attemptsLeft > 0
ShouldSchedule(attemptsLeft) == attemptsLeft > 0

\* Variant: the load branch does not return and runs into the timer branch.
FailureStepsNoReturn(d, rs) ==
    IF DeferToLoad(d.afterLoad, rs)
    THEN IF ShouldSchedule(d.attemptsLeft) THEN <<"listen", "timer">>
         ELSE <<"listen", "reject">>
    ELSE IF ShouldSchedule(d.attemptsLeft) THEN <<"timer">>
    ELSE <<"reject">>

\* The catch branch: what a failed attempt does next.
FailureSteps(d, rs) ==
    IF DeferToLoad(d.afterLoad, rs) THEN <<"listen">>
    ELSE IF ShouldSchedule(d.attemptsLeft) THEN <<"timer">>
    ELSE <<"reject">>

\* The try branch: resolve, then control leaves the try statement and reaches
\* the data.deferred.reject() that follows it.
SuccessSteps == <<"resolve", "reject">>

\* The steps of one run of the inner retry function after func ended with o.
AttemptSteps(d, rs, o) ==
    IF o # "throw" THEN SuccessSteps ELSE FailureSteps(d, rs)

Has(steps, x) == \E i \in DOMAIN steps : steps[i] = x

\* One run of the inner retry function for sequence s: dt0, tm0 and ll0 are
\* data, timers and loadListeners as the caller left them, trig says what
\* started this run, o is the outcome of func.
retry(s, dt0, tm0, ll0, trig, o) ==
    LET dt1   == DecrementAttempts(dt0, s)
        d     == dt1[s]
        steps == AttemptSteps(d, readyState, o)
        df1   == IF Has(steps, "resolve") THEN resolve(deferred[s], o) ELSE deferred[s]
        df2   == IF Has(steps, "reject") THEN reject(df1) ELSE df1
        call  == [out |-> o, at |-> now, via |-> trig.via, tdelay |-> trig.tdelay,
                  tset |-> trig.tset, complete |-> (readyState = "complete")]
    IN  /\ calls' = [calls EXCEPT ![s] = Append(@, call)]
        /\ deferred' = [deferred EXCEPT ![s] = df2]
        /\ loadListeners' = IF Has(steps, "listen")
                            THEN [ll0 EXCEPT ![s] = @ + 1] ELSE ll0
        /\ IF Has(steps, "timer")
           THEN /\ timers' = setTimeout(clearTimeout(tm0, d.timeout), nextHandle, s,
                                        d.delay, now)
                /\ data' = [dt1 EXCEPT ![s].timeout = nextHandle]
                /\ nextHandle' = nextHandle + 1
           ELSE /\ timers' = tm0
                /\ data' = dt1
                /\ nextHandle' = nextHandle

\* The exported retry(functionToRetry, afterLoad, attempts, delay): builds the
\* data record and runs the first attempt synchronously.
RetryCall(s, afterLoad, attempts, delay, o) ==
    /\ retryFrame
    /\ ~data[s].started
    /\ s = "s2" => data["s1"].started
    /\ args' = [args EXCEPT ![s] = [afterLoad |-> afterLoad, attempts |-> attempts,
                                    delay |-> delay,
                                    complete |-> (readyState = "complete")]]
    /\ retry(s, [data EXCEPT ![s] = NewData(afterLoad, attempts, delay, readyState)],
             timers, loadListeners, [via |-> "call", tdelay |-> -1, tset |-> -1], o)
    /\ UNCHANGED <<readyState, loadFired, now>>

\* A timer set by a failed attempt fires: retry.bind(void 0, data) runs.
TimerFire(t, o) ==
    /\ retryFrame
    /\ t \in timers
    /\ now >= t.due
    /\ retry(t.seq, data, timers \ {t}, loadListeners,
             [via |-> "timer", tdelay |-> t.delay, tset |-> t.setAt], o)
    /\ UNCHANGED <<readyState, loadFired, now, args>>

\* The one-shot load listener of sequence s runs.
LoadHandler(s, o) ==
    /\ retryFrame
    /\ loadFired
    /\ loadListeners[s] > 0
    /\ retry(s, data, timers, [loadListeners EXCEPT ![s] = @ - 1],
             [via |-> "load", tdelay |-> -1, tset |-> -1], o)
    /\ UNCHANGED <<readyState, loadFired, now, args>>

\* The document goes from loading to interactive.
DocInteractive ==
    /\ retryFrame
    /\ readyState = "loading"
    /\ readyState' = "interactive"
    /\ UNCHANGED <<loadFired, now, args, data, deferred, timers, nextHandle,
                   loadListeners, calls>>

\* The document has finished loading.
DocComplete ==
    /\ retryFrame
    /\ readyState # "complete"
    /\ readyState' = "complete"
    /\ UNCHANGED <<loadFired, now, args, data, deferred, timers, nextHandle,
                   loadListeners, calls>>

\* The window load event is dispatched, once, on a complete document.
LoadEvent ==
    /\ retryFrame
    /\ readyState = "complete"
    /\ ~loadFired
    /\ loadFired' = TRUE
    /\ UNCHANGED <<readyState, now, args, data, deferred, timers, nextHandle,
                   loadListeners, calls>>

\* Time passes, up to the time a pending timer is due.
Advance ==
    /\ retryFrame
    /\ \E t \in timers : t.due > now /\ now' = t.due
    /\ UNCHANGED <<readyState, loadFired, args, data, deferred, timers, nextHandle,
                   loadListeners, calls>>

InitRetry ==
    /\ readyState = "loading"
    /\ loadFired = FALSE
    /\ now = 0
    /\ args = [s \in Seqs |-> NoArgs]
    /\ data = [s \in Seqs |-> NoData]
    /\ deferred = [s \in Seqs |-> NewDeferred]
    /\ timers = {}
    /\ nextHandle = 1
    /\ loadListeners = [s \in Seqs |-> 0]
    /\ calls = [s \in Seqs |-> <<>>]

\* Two retry sequences, each called with attempts and a delay given.
NextRetry ==
    \/ \E s \in Seqs, afterLoad \in BOOLEAN, attempts \in 1..MaxPairAttempts,
          delay \in 1..MaxDelay, o \in Outcomes :
          RetryCall(s, afterLoad, attempts, delay, o)
    \/ \E t \in timers, o \in Outcomes : TimerFire(t, o)
    \/ \E s \in Seqs, o \in Outcomes : LoadHandler(s, o)
    \/ DocInteractive
    \/ DocComplete
    \/ LoadEvent
    \/ Advance

\* One retry sequence alone.
NextRetryOne ==
    \/ \E afterLoad \in BOOLEAN, attempts \in 0..MaxAttempts,
          delay \in 0..MaxDelay, o \in Outcomes :
          RetryCall("s1", afterLoad, attempts, delay, o)
    \/ \E t \in timers, o \in Outcomes : TimerFire(t, o)
    \/ \E o \in Outcomes : LoadHandler("s1", o)
    \/ DocInteractive
    \/ DocComplete
    \/ LoadEvent
    \/ Advance

\* ------------------------------------------------------ retry: claims
\* The timers of sequence s that are pending.
TimersOf(s) == {t \in timers : t.seq = s}

\* The next attempts of sequence s that are scheduled: timers and load listeners.
Pending(s) == Cardinality(TimersOf(s)) + loadListeners[s]

\* The attempts and the delay a call asked for: an argument of 0 is falsy, counts
\* as not given, and stands for the default.
AttemptsAsked(s) == IF args[s].attempts = 0 THEN defaultAttempts ELSE args[s].attempts
DelayAsked(s) == IF args[s].delay = 0 THEN defaultDelay ELSE args[s].delay

AllThrew(s) == \A i \in 1..Len(calls[s]) : calls[s][i].out = "throw"
LastCall(s) == calls[s][Len(calls[s])]

\* C1: retry(func, afterLoad=false, attempts=A, delay=D), func throwing on its
\* first N-1 invocations and returning v on the Nth, 1 <= N <= A: the promise
\* is fulfilled with v after exactly N invocations (an invocation that returns
\* is the last one; while fewer than A invocations have all thrown, the
\* deferred is pending and exactly one timer of D ms, set at the last failure,
\* is pending), and every invocation after the first was started by a timer
\* of D ms, set at the preceding failure, no sooner than D ms after it.
\* D is the delay asked for (DelayAsked: an argument of 0 is not a delay given).
C1_FulfilledAfterN ==
    \A s \in Seqs :
        (data[s].started /\ ~args[s].afterLoad) =>
            LET n == Len(calls[s])
                A == AttemptsAsked(s)
                D == DelayAsked(s)
            IN  /\ \A i \in 1..n :
                       (calls[s][i].out # "throw" /\ i <= A) =>
                           /\ i = n
                           /\ deferred[s].state = "resolved"
                           /\ deferred[s].value = calls[s][i].out
                /\ deferred[s].state = "resolved" => LastCall(s).out # "throw"
                /\ (AllThrew(s) /\ n < A) =>
                       /\ deferred[s].state = "pending"
                       /\ loadListeners[s] = 0
                       /\ \E t \in timers :
                              /\ TimersOf(s) = {t}
                              /\ t.delay = D
                              /\ t.setAt = LastCall(s).at
                              /\ t.due = t.setAt + D
                /\ \A i \in 2..n :
                       i <= A =>
                           /\ calls[s][i].via = "timer"
                           /\ calls[s][i].tdelay = D
                           /\ calls[s][i].tset = calls[s][i - 1].at
                           /\ calls[s][i].at >= calls[s][i - 1].at + D

\* Witness of C1: a sequence with a delay given fulfilled at its third invocation.
C1_Witness ==
    \E s \in Seqs :
        /\ data[s].started /\ ~args[s].afterLoad
        /\ args[s].attempts = 3 /\ args[s].delay = 2
        /\ Len(calls[s]) = 3
        /\ deferred[s].state = "resolved" /\ deferred[s].value = "v"

\* C2: with a func that throws on every invocation, afterLoad false and A
\* attempts asked for (5 when not given), the promise is rejected, with no
\* payload, after exactly A invocations, and func is not invoked again: never
\* more than A invocations, rejected exactly when A invocations have thrown,
\* and nothing is left scheduled once rejected.
C2_RejectedAfterA ==
    \A s \in Seqs :
        (data[s].started /\ ~args[s].afterLoad /\ AllThrew(s)) =>
            /\ Len(calls[s]) <= AttemptsAsked(s)
            /\ deferred[s].state = "rejected" <=> Len(calls[s]) = AttemptsAsked(s)
            /\ deferred[s].state # "resolved"
            /\ deferred[s].state = "rejected" =>
                   /\ deferred[s].value = "undefined"
                   /\ Pending(s) = 0

\* Witness of C2: attempts=3 and three failed invocations, rejected.
C2_Witness ==
    \E s \in Seqs :
        /\ data[s].started /\ ~args[s].afterLoad /\ AllThrew(s)
        /\ args[s].attempts = 3
        /\ Len(calls[s]) = 3
        /\ deferred[s].state = "rejected"

\* C3: once an attempt has succeeded the sequence has fulfilled the deferred
\* and stopped: that attempt is the last invocation, nothing is left scheduled,
\* and the resolve is the only operation performed on the deferred.
C3_StopsAfterSuccess ==
    \A s \in Seqs :
        (\E i \in 1..Len(calls[s]) : calls[s][i].out # "throw") =>
            /\ LastCall(s).out # "throw"
            /\ \A i \in 1..(Len(calls[s]) - 1) : calls[s][i].out = "throw"
            /\ Pending(s) = 0
            /\ deferred[s].state = "resolved"
            /\ deferred[s].ops = <<"resolve">>

\* C4: attempts of one sequence are strictly sequential: at most one next
\* attempt (timer or load listener) is pending at any time, and a next attempt
\* is scheduled only by a step that is a failed invocation of that sequence.
C4_Sequential ==
    /\ [](\A s \in Seqs : Pending(s) <= 1)
    /\ [][\A s \in Seqs :
            ((\E t \in timers' : t.seq = s /\ t \notin timers)
               \/ loadListeners'[s] > loadListeners[s]) =>
                /\ Len(calls'[s]) = Len(calls[s]) + 1
                /\ calls'[s][Len(calls'[s])].out = "throw"
                /\ Pending(s)' = 1]_vars

\* Witness of C4: a second attempt has failed and the third is scheduled.
C4_Witness ==
    \E s \in Seqs : Len(calls[s]) = 2 /\ AllThrew(s) /\ Pending(s) = 1

\* C5: after a failed attempt, the next attempt waits for the one-shot load
\* event (and no timer is set) exactly when afterLoad was asked for, the
\* document was not complete when retry was called and is not complete at the
\* failure; in every other case the delay timer is set if attempts remain.
C5_LoadOrTimer ==
    \A s \in Seqs :
        (Len(calls[s]) > 0 /\ LastCall(s).out = "throw") =>
            LET toLoad == /\ args[s].afterLoad
                          /\ ~args[s].complete
                          /\ ~LastCall(s).complete
                remain == AttemptsAsked(s) - Len(calls[s]) > 0
            IN  /\ toLoad => loadListeners[s] = 1 /\ TimersOf(s) = {}
                /\ ~toLoad => loadListeners[s] = 0
                /\ (~toLoad /\ remain) =>
                       \E t \in timers : TimersOf(s) = {t} /\ t.delay = DelayAsked(s)
                /\ (~toLoad /\ ~remain) => TimersOf(s) = {}

\* Witness of C5: afterLoad asked for on a loading document, the first attempt
\* waited for the load event, and the second, failing after it, set the timer.
C5_Witness ==
    \E s \in Seqs :
        /\ args[s].afterLoad /\ ~args[s].complete
        /\ Len(calls[s]) = 2 /\ AllThrew(s)
        /\ calls[s][2].via = "load"
        /\ Cardinality(TimersOf(s)) = 1

\* The invocations a sequence makes at most: the attempts asked for, and two
\* when afterLoad defers the second attempt to the load event.
MostInvocations(s) ==
    IF args[s].afterLoad /\ ~args[s].complete /\ AttemptsAsked(s) < 2
    THEN 2 ELSE AttemptsAsked(s)

\* C6: two retry sequences share no state: an attempt of one sequence leaves
\* the other's data record (attemptsLeft, timer handle), deferred, timers,
\* listeners and invocations as they were, and under every interleaving each
\* sequence makes the invocations and reaches the outcome its own arguments
\* and its own func decide.
C6_Independent ==
    /\ [](\A s \in Seqs :
            data[s].started =>
                /\ Len(calls[s]) <= MostInvocations(s)
                /\ \A i \in 1..(Len(calls[s]) - 1) : calls[s][i].out = "throw"
                /\ deferred[s].state = "resolved" <=> LastCall(s).out # "throw"
                /\ deferred[s].state = "resolved" => deferred[s].value = LastCall(s).out
                /\ deferred[s].state = "rejected" <=>
                       (AllThrew(s) /\ Len(calls[s]) = MostInvocations(s))
                /\ (AllThrew(s) /\ Len(calls[s]) < MostInvocations(s)) => Pending(s) = 1)
    /\ [][\A s \in Seqs :
            calls'[s] # calls[s] =>
                \A q \in Seqs \ {s} :
                    /\ data'[q] = data[q]
                    /\ deferred'[q] = deferred[q]
                    /\ TimersOf(q)' = TimersOf(q)
                    /\ loadListeners'[q] = loadListeners[q]
                    /\ calls'[q] = calls[q]]_vars

\* Witness of C6: the second sequence started and failed between the two
\* invocations of the first; the first has been rejected by its second failure
\* while the timer of the second is still pending.
C6_Witness ==
    /\ Len(calls["s1"]) = 2 /\ AllThrew("s1") /\ deferred["s1"].state = "rejected"
    /\ Len(calls["s2"]) = 1 /\ AllThrew("s2") /\ deferred["s2"].state = "pending"
    /\ calls["s2"][1].at < calls["s1"][2].at
    /\ Cardinality(TimersOf("s2")) = 1

\* C20: in every retry sequence func is invoked at most as many times as the
\* attempts asked for (defaultAttempts when none are given), and attemptsLeft
\* never becomes negative.
C20_AtMostAttempts ==
    \A s \in Seqs :
       /\ data[s].started => Len(calls[s]) <= AttemptsAsked(s)
       /\ data[s].attemptsLeft >= 0

\* =============================================================== ajax
\* Strings the model passes around; "undefined" stands for the value undefined
\* (an absent option or object key), "" is the empty string.
Truthy(x) == x \notin {"undefined", ""}

Hosts == {"modern", "ie9", "ie10"}

\* global.XDomainRequest exists; /MSIE 1/ matches the user agent; global.FormData exists.
HasXDomainRequest(h) == h \in {"ie9", "ie10"}
IsMSIE1x(h) == h = "ie10"
HasFormData(h) == h \in {"modern", "ie10"}

HeaderNames == {"X-Requested-With", "Content-Type"}
NoHeaders == [h \in HeaderNames |-> "undefined"]

\* The headers objects a caller passes (params.headers || {}).
CallerHeaders == [HeaderNames -> {"undefined", "", "text/plain"}]

Bodies == {"undefined", "", "a=1", "FormData"}
Methods == {"undefined", "", "GET", "PUT"}

NoParams == [headers |-> NoHeaders, body |-> "undefined", method |-> "undefined",
             cors |-> FALSE]
NoReq == [status |-> "undefined", response |-> "undefined",
          responseText |-> "undefined", readyState |-> "undefined"]

\* getRequest(cors)
getRequest(h, cors) ==
    IF cors /\ HasXDomainRequest(h) /\ ~IsMSIE1x(h) THEN "XDomainRequest"
    ELSE "XMLHttpRequest"

\* Variant: the value is set whatever the object holds.
setDefaultOverwrite(obj, key, value) == [obj EXCEPT ![key] = value]

\* setDefault(obj, key, value): obj[key] = obj[key] || value
setDefault(obj, key, value) ==
    [obj EXCEPT ![key] = IF Truthy(@) THEN @ ELSE value]

\* method = params.method || (body ? 'POST' : 'GET')
methodDefault(method, body) ==
    IF Truthy(method) THEN method ELSE IF Truthy(body) THEN "POST" ELSE "GET"

\* !global.FormData || !(body instanceof global.FormData)
NotFormData(h, body) == ~HasFormData(h) \/ body # "FormData"

\* The header defaults of a request with a body.
headerDefaults(h, headers, body) ==
    IF Truthy(body)
    THEN LET h1 == setDefault(headers, "X-Requested-With", "XMLHttpRequest")
         IN  IF NotFormData(h, body)
             THEN setDefault(h1, "Content-Type", "application/x-www-form-urlencoded")
             ELSE h1
    ELSE headers

\* A new request object after req.open: XMLHttpRequest has status 0 and
\* readyState 1, XDomainRequest has neither field.
OpenedReq(kind) ==
    IF kind = "XMLHttpRequest"
    THEN [status |-> "0", response |-> "", responseText |-> "", readyState |-> "1"]
    ELSE [status |-> "undefined", response |-> "undefined", responseText |-> "",
          readyState |-> "undefined"]

\* ajax(params, callback), to the return of the request object.
AjaxCall(h, p) ==
    /\ ajaxFrame
    /\ phase = "idle"
    /\ p.body = "FormData" => HasFormData(h)
    /\ host' = h
    /\ params' = p
    /\ reqKind' = getRequest(h, p.cors)
    /\ req' = OpenedReq(getRequest(h, p.cors))
    /\ reqMethod' = methodDefault(p.method, p.body)
    /\ reqHeaders' = headerDefaults(h, p.headers, p.body)
    /\ reqBody' = p.body
    /\ called' = FALSE
    /\ phase' = "sent"
    /\ UNCHANGED <<cbLog, events, outcome, fired, uncaught>>

\* The events each request object dispatches when a request ends.
\* XMLHttpRequest sets readyState 4 and dispatches readystatechange before
\* load, error, timeout or abort; XDomainRequest has no readystatechange and no
\* abort event.
CompletionEvents(kind, o) ==
    LET e == CASE o = "Success" -> "load"
               [] o = "Error" -> "error"
               [] o = "Timeout" -> "timeout"
               [] o = "Abort" -> "abort"
    IN  IF kind = "XMLHttpRequest" THEN <<"readystatechange", e>>
        ELSE IF o = "Abort" THEN <<>>
        ELSE <<e>>

\* The response arrives: the transport fills in the request object.
TransportSuccess(status, text) ==
    /\ ajaxFrame
    /\ phase = "sent"
    /\ req' = IF reqKind = "XMLHttpRequest"
              THEN [status |-> status, response |-> text, responseText |-> text,
                    readyState |-> "4"]
              ELSE [req EXCEPT !.responseText = text]
    /\ events' = CompletionEvents(reqKind, "Success")
    /\ outcome' = "Success"
    /\ phase' = "done"
    /\ UNCHANGED <<host, params, reqKind, reqMethod, reqHeaders, reqBody, called,
                   cbLog, fired, uncaught>>

\* The request fails (network error, timeout) or the caller aborts it through
\* the returned request object: no status, no response.
TransportFailure(o) ==
    /\ ajaxFrame
    /\ phase = "sent"
    /\ req' = IF reqKind = "XMLHttpRequest"
              THEN [status |-> "0", response |-> "", responseText |-> "",
                    readyState |-> "4"]
              ELSE req
    /\ events' = CompletionEvents(reqKind, o)
    /\ outcome' = o
    /\ phase' = "done"
    /\ UNCHANGED <<host, params, reqKind, reqMethod, reqHeaders, reqBody, called,
                   cbLog, fired, uncaught>>

\* a || b || c on strings
Or3(a, b, c) == IF Truthy(a) THEN a ELSE IF Truthy(b) THEN b ELSE c

\* The arguments cb(statusCode, responseText) passes to callback.
cbStatus(r, statusCode) == IF r.status = "undefined" THEN statusCode ELSE r.status
cbResponse(r, responseText) == Or3(r.response, r.responseText, responseText)

\* The handler wired to each event: the arguments of its cb(...).
HandlerStatus(e) == IF e \in {"load", "readystatechange"} THEN "200" ELSE "null"
HandlerText(e) ==
    CASE e = "error" -> "Error"
      [] e = "timeout" -> "Timeout"
      [] e = "abort" -> "Abort"
      [] OTHER -> "undefined"

\* The transport dispatches its next event and the handler runs: the function
\* cb returned (for readystatechange: success(), the request being at
\* readyState 4).  callback returns or raises; called is set after it returned.
Dispatch(raises) ==
    /\ ajaxFrame
    /\ phase = "done"
    /\ events # <<>>
    /\ LET e == Head(events)
       IN  /\ events' = Tail(events)
           /\ fired' = fired + 1
           /\ IF ~called
              THEN /\ cbLog' = Append(cbLog,
                                      [status |-> cbStatus(req, HandlerStatus(e)),
                                       response |-> cbResponse(req, HandlerText(e)),
                                       via |-> e])
                   /\ called' = ~raises
                   /\ uncaught' = IF raises THEN uncaught + 1 ELSE uncaught
              ELSE /\ raises = FALSE
                   /\ called' = TRUE
                   /\ UNCHANGED <<cbLog, uncaught>>
    /\ UNCHANGED <<host, params, phase, reqKind, req, reqMethod, reqHeaders, reqBody,
                   outcome>>

InitAjax ==
    /\ host = "modern"
    /\ params = NoParams
    /\ phase = "idle"
    /\ reqKind = "undefined"
    /\ req = NoReq
    /\ reqMethod = "undefined"
    /\ reqHeaders = NoHeaders
    /\ reqBody = "undefined"
    /\ called = FALSE
    /\ cbLog = <<>>
    /\ events = <<>>
    /\ outcome = "none"
    /\ fired = 0
    /\ uncaught = 0

NextAjax ==
    \/ \E h \in Hosts, hs \in CallerHeaders, b \in Bodies, m \in Methods,
          c \in BOOLEAN :
          AjaxCall(h, [headers |-> hs, body |-> b, method |-> m, cors |-> c])
    \/ \E st \in {"200", "404"}, text \in {"", "ok"} : TransportSuccess(st, text)
    \/ \E o \in {"Error", "Timeout", "Abort"} : TransportFailure(o)
    \/ \E raises \in BOOLEAN : Dispatch(raises)

\* ============================================================ memoize
\* The key arguments of the model: undefined, null, the strings 'a', '1' and
\* 'constructor', and the number 1.
KeyArgs == {"undefined", "null", "'a'", "'1'", "1", "'constructor'"}

\* keyArg.toString()
toString(k) ==
    CASE k = "'a'" -> "a"
      [] k = "'1'" -> "1"
      [] k = "1" -> "1"
      [] k = "'constructor'" -> "constructor"

CacheKeys == {"a", "1", "constructor"}

\* What func returns: undefined, the number 0, or one of two objects.
Results == {"undefined", "0", "r1", "r2"}

\* The truth value of a result in a condition.
ResultTruthy(x) == x \notin {"undefined", "0"}

\* var cache = {}: no own property; "absent" marks a key that is not set.
EmptyCache == [k \in CacheKeys |-> "absent"]

\* cache[key]: the own property, else what {} inherits from Object.prototype,
\* else undefined.
InheritedKeys == {"constructor"}

Lookup(c, key) ==
    IF c[key] # "absent" THEN c[key]
    ELSE IF key \in InheritedKeys THEN "Object.prototype." \o key
    ELSE "undefined"

\* if (cache[keyArgString]) return cache[keyArgString];
CacheHit(c, key) == ResultTruthy(Lookup(c, key))

\* if (undefinedResult !== undefined), if (nullResult !== undefined)
SlotHit(slot) == slot # "undefined"

\* One call of the memoized function with key argument k; r is what func
\* returns if this call invokes it.
MemoizedCall(k, r) ==
    /\ memoizeFrame
    /\ Len(memoLog) < MaxCalls
    /\ IF k = "undefined"
       THEN IF SlotHit(undefinedResult)
            THEN /\ memoLog' = Append(memoLog, [key |-> k, invoked |-> FALSE,
                                                ret |-> undefinedResult])
                 /\ UNCHANGED <<cache, undefinedResult, nullResult>>
            ELSE /\ undefinedResult' = r
                 /\ memoLog' = Append(memoLog, [key |-> k, invoked |-> TRUE, ret |-> r])
                 /\ UNCHANGED <<cache, nullResult>>
       ELSE IF k = "null"
       THEN IF SlotHit(nullResult)
            THEN /\ memoLog' = Append(memoLog, [key |-> k, invoked |-> FALSE,
                                                ret |-> nullResult])
                 /\ UNCHANGED <<cache, undefinedResult, nullResult>>
            ELSE /\ nullResult' = r
                 /\ memoLog' = Append(memoLog, [key |-> k, invoked |-> TRUE, ret |-> r])
                 /\ UNCHANGED <<cache, undefinedResult>>
       ELSE LET keyArgString == toString(k)
            IN  IF CacheHit(cache, keyArgString)
                THEN /\ memoLog' = Append(memoLog,
                                          [key |-> k, invoked |-> FALSE,
                                           ret |-> Lookup(cache, keyArgString)])
                     /\ UNCHANGED <<cache, undefinedResult, nullResult>>
                ELSE /\ cache' = [cache EXCEPT ![keyArgString] = r]
                     /\ memoLog' = Append(memoLog, [key |-> k, invoked |-> TRUE,
                                                    ret |-> r])
                     /\ UNCHANGED <<undefinedResult, nullResult>>

\* memoize(func): var cache = {}, undefinedResult, nullResult
InitMemoize ==
    /\ cache = EmptyCache
    /\ undefinedResult = "undefined"
    /\ nullResult = "undefined"
    /\ memoLog = <<>>

NextMemoize == \E k \in KeyArgs, r \in Results : MemoizedCall(k, r)

\* =========================================================== override
\* One invocation of spy = override(funcToOverride, overrider).  The overrider
\* is arbitrary code: it reassigns state.thisArg and state.argsAsArray,
\* changes the array in place, calls the two forwarders, and returns.

\* The objects that serve as this.
Receivers == {"T", "U"}
\* The values passed as arguments.
ArgValues == {"x", "y"}
ArgLists == UNION {[1..n -> ArgValues] : n \in 0..MaxArgs}
\* What overrider returns.
OverriderResults == {"g1", "g2"}

\* Array.prototype.slice.call(arguments): a new array with the same elements.
slice(h, a) == [heap |-> Append(h, a), ref |-> Len(h) + 1]

SpyClosureSharedArgs(T, a) ==
    LET s1 == slice(<<>>, a)
    IN  [heap |-> s1.heap,
         originalThis |-> T,
         originalArgsAsArray |-> s1.ref,
         state |-> [original |-> "funcToOverride", thisArg |-> T,
                    argsAsArray |-> s1.ref]]

\* The variables of spy when it is invoked with receiver T and arguments a.
SpyClosure(T, a) ==
    LET s1 == slice(<<>>, a)
        s2 == slice(s1.heap, a)
    IN  [heap |-> s2.heap,
         originalThis |-> T,
         originalArgsAsArray |-> s1.ref,
         state |-> [original |-> "funcToOverride", thisArg |-> T,
                    argsAsArray |-> s2.ref]]

\* funcToOverride.apply(state.thisArg, state.argsAsArray): what funcToOverride receives.
callOverridden(sp, h) ==
    [thisArg |-> sp.state.thisArg, args |-> h[sp.state.argsAsArray]]

\* funcToOverride.apply(originalThis, originalArgsAsArray)
callOriginal(sp, h) ==
    [thisArg |-> sp.originalThis, args |-> h[sp.originalArgsAsArray]]

\* return overrider(state)
SpyReturn(overriderResult) == overriderResult

\* spy is invoked: the closure is built and overrider is called with state.
SpyCall(T, a) ==
    /\ overrideFrame
    /\ ovPhase = "idle"
    /\ LET c == SpyClosure(T, a)
       IN  /\ ovHeap' = c.heap
           /\ spy' = [receiver |-> T, arguments |-> a,
                      originalThis |-> c.originalThis,
                      originalArgsAsArray |-> c.originalArgsAsArray,
                      state |-> c.state]
           /\ gLog' = Append(gLog, [original |-> c.state.original])
    /\ gSees' = [thisArg |-> T, argsAsArray |-> a, steps |-> 0]
    /\ ovPhase' = "inG"
    /\ UNCHANGED <<fLog, gResult, spyResult>>

\* overrider: state.thisArg = v
GSetThisArg(v) ==
    /\ overrideFrame
    /\ ovPhase = "inG" /\ gSees.steps < MaxOverriderSteps
    /\ spy' = [spy EXCEPT !.state.thisArg = v]
    /\ gSees' = [gSees EXCEPT !.thisArg = v, !.steps = @ + 1]
    /\ UNCHANGED <<ovPhase, ovHeap, gLog, fLog, gResult, spyResult>>

\* overrider: state.argsAsArray = [v]
GSetArgsAsArray(v) ==
    /\ overrideFrame
    /\ ovPhase = "inG" /\ gSees.steps < MaxOverriderSteps
    /\ ovHeap' = Append(ovHeap, <<v>>)
    /\ spy' = [spy EXCEPT !.state.argsAsArray = Len(ovHeap) + 1]
    /\ gSees' = [gSees EXCEPT !.argsAsArray = <<v>>, !.steps = @ + 1]
    /\ UNCHANGED <<ovPhase, gLog, fLog, gResult, spyResult>>

\* overrider: state.argsAsArray[i - 1] = v
GChangeArg(i, v) ==
    /\ overrideFrame
    /\ ovPhase = "inG" /\ gSees.steps < MaxOverriderSteps
    /\ i \in 1..Len(gSees.argsAsArray)
    /\ ovHeap' = [ovHeap EXCEPT ![spy.state.argsAsArray][i] = v]
    /\ gSees' = [gSees EXCEPT !.argsAsArray[i] = v, !.steps = @ + 1]
    /\ UNCHANGED <<ovPhase, spy, gLog, fLog, gResult, spyResult>>

\* overrider: state.argsAsArray.push(v)
GPushArg(v) ==
    /\ overrideFrame
    /\ ovPhase = "inG" /\ gSees.steps < MaxOverriderSteps
    /\ Len(gSees.argsAsArray) < MaxArgs
    /\ ovHeap' = [ovHeap EXCEPT ![spy.state.argsAsArray] = Append(@, v)]
    /\ gSees' = [gSees EXCEPT !.argsAsArray = Append(@, v), !.steps = @ + 1]
    /\ UNCHANGED <<ovPhase, spy, gLog, fLog, gResult, spyResult>>

\* overrider: state.callOverridden()
CallOverridden ==
    /\ overrideFrame
    /\ ovPhase = "inG" /\ gSees.steps < MaxOverriderSteps
    /\ LET got == callOverridden(spy, ovHeap)
       IN  fLog' = Append(fLog, [via |-> "callOverridden", thisArg |-> got.thisArg,
                                 args |-> got.args, sees |-> gSees])
    /\ gSees' = [gSees EXCEPT !.steps = @ + 1]
    /\ UNCHANGED <<ovPhase, ovHeap, spy, gLog, gResult, spyResult>>

\* overrider: state.callOriginal()
CallOriginal ==
    /\ overrideFrame
    /\ ovPhase = "inG" /\ gSees.steps < MaxOverriderSteps
    /\ LET got == callOriginal(spy, ovHeap)
       IN  fLog' = Append(fLog, [via |-> "callOriginal", thisArg |-> got.thisArg,
                                 args |-> got.args, sees |-> gSees])
    /\ gSees' = [gSees EXCEPT !.steps = @ + 1]
    /\ UNCHANGED <<ovPhase, ovHeap, spy, gLog, gResult, spyResult>>

\* overrider returns r, and spy returns.
GReturn(r) ==
    /\ overrideFrame
    /\ ovPhase = "inG"
    /\ gResult' = r
    /\ spyResult' = SpyReturn(r)
    /\ ovPhase' = "done"
    /\ UNCHANGED <<ovHeap, spy, gSees, gLog, fLog>>

NoSpy == [receiver |-> "undefined", arguments |-> <<>>,
          originalThis |-> "undefined", originalArgsAsArray |-> 0,
          state |-> [original |-> "undefined", thisArg |-> "undefined",
                     argsAsArray |-> 0]]

\* spy = override(funcToOverride, overrider) has been made and not yet invoked.
InitOverride ==
    /\ ovPhase = "idle"
    /\ ovHeap = <<>>
    /\ spy = NoSpy
    /\ gSees = [thisArg |-> "undefined", argsAsArray |-> <<>>, steps |-> 0]
    /\ gLog = <<>>
    /\ fLog = <<>>
    /\ gResult = "undefined"
    /\ spyResult = "undefined"

NextOverride ==
    \/ \E T \in Receivers, a \in ArgLists : SpyCall(T, a)
    \/ \E v \in Receivers : GSetThisArg(v)
    \/ \E v \in ArgValues : GSetArgsAsArray(v)
    \/ \E i \in 1..MaxArgs, v \in ArgValues : GChangeArg(i, v)
    \/ \E v \in ArgValues : GPushArg(v)
    \/ CallOverridden
    \/ CallOriginal
    \/ \E r \in OverriderResults : GReturn(r)

\* =========================================================== throttle
\* One wrapper made by throttle(func, throttleAmount).  The host runs a timer
\* callback no earlier than its due time, and possibly later.

\* The arguments of a wrapper call.
WrapperArgs == {"a", "b"}

\* var timeout; (setTimeout handles are positive)
undefinedTimeout == 0

\* Variant: the wrapper schedules an invocation on every call.
NotPendingAlways(timeout) == TRUE

\* if (!timeout)
NotPending(timeout) == timeout = undefinedTimeout

\* throttle(func, throttleAmount)
ThrottleMake(W) ==
    /\ throttleFrame
    /\ ~thMade
    /\ thMade' = TRUE
    /\ thAmount' = W
    /\ UNCHANGED <<thTimeout, thTimers, thNextHandle, thNow, thCalls, thLog>>

\* The wrapper is called with arguments a.
ThrottledCall(a) ==
    /\ throttleFrame
    /\ thMade
    /\ Len(thCalls) < MaxWrapperCalls
    /\ IF NotPending(thTimeout)
       THEN /\ thTimers' = setTimeout(thTimers, thNextHandle, a, thAmount, thNow)
            /\ thTimeout' = thNextHandle
            /\ thNextHandle' = thNextHandle + 1
       ELSE UNCHANGED <<thTimers, thTimeout, thNextHandle>>
    /\ thCalls' = Append(thCalls, [at |-> thNow, args |-> a,
                                   pending |-> thTimers # {},
                                   scheduled |-> thTimers' # thTimers])
    /\ UNCHANGED <<thMade, thAmount, thNow, thLog>>

\* The callback of timer t runs: timeout = undefined; func.apply(self, args).
ThrottleTimerFire(t) ==
    /\ throttleFrame
    /\ t \in thTimers
    /\ thNow >= t.due
    /\ thTimers' = thTimers \ {t}
    /\ thTimeout' = undefinedTimeout
    /\ thLog' = Append(thLog, [at |-> thNow, args |-> t.seq, setAt |-> t.setAt])
    /\ UNCHANGED <<thMade, thAmount, thNextHandle, thNow, thCalls>>

\* One millisecond passes.
ThrottleTick ==
    /\ throttleFrame
    /\ thNow < MaxTicks
    /\ thNow' = thNow + 1
    /\ UNCHANGED <<thMade, thAmount, thTimeout, thTimers, thNextHandle, thCalls, thLog>>

InitThrottle ==
    /\ thMade = FALSE
    /\ thAmount = 0
    /\ thTimeout = undefinedTimeout
    /\ thTimers = {}
    /\ thNextHandle = 1
    /\ thNow = 0
    /\ thCalls = <<>>
    /\ thLog = <<>>

NextThrottle ==
    \/ \E W \in 0..MaxWindow : ThrottleMake(W)
    \/ \E a \in WrapperArgs : ThrottledCall(a)
    \/ \E t \in thTimers : ThrottleTimerFire(t)
    \/ ThrottleTick

\* =========================================================== debounce
\* One wrapper made by debounce(func, duration), on the same kind of host.

\* Variant: the pending timer is left in place.
SupersedeNothing(tm, timeout) == tm

\* if (timeout) { clearTimeout(timeout); }
Supersede(tm, timeout) ==
    IF timeout # undefinedTimeout THEN clearTimeout(tm, timeout) ELSE tm

\* debounce(func, duration)
DebounceMake(D) ==
    /\ debounceFrame
    /\ ~dbMade
    /\ dbMade' = TRUE
    /\ dbDuration' = D
    /\ UNCHANGED <<dbTimeout, dbTimers, dbNextHandle, dbNow, dbEvents>>

\* The wrapper is called.
DebouncedCall(a) ==
    /\ debounceFrame
    /\ dbMade
    /\ Cardinality({i \in DOMAIN dbEvents : dbEvents[i].type = "call"}) < MaxWrapperCalls
    /\ dbTimers' = setTimeout(Supersede(dbTimers, dbTimeout), dbNextHandle, a,
                              dbDuration, dbNow)
    /\ dbTimeout' = dbNextHandle
    /\ dbNextHandle' = dbNextHandle + 1
    /\ dbEvents' = Append(dbEvents, [type |-> "call", at |-> dbNow, due |-> dbNow])
    /\ UNCHANGED <<dbMade, dbDuration, dbNow>>

\* onTimeout runs for timer t: timeout = undefined; func.apply(...).
DebounceTimerFire(t) ==
    /\ debounceFrame
    /\ t \in dbTimers
    /\ dbNow >= t.due
    /\ dbTimers' = dbTimers \ {t}
    /\ dbTimeout' = undefinedTimeout
    /\ dbEvents' = Append(dbEvents, [type |-> "invoke", at |-> dbNow, due |-> t.due])
    /\ UNCHANGED <<dbMade, dbDuration, dbNextHandle, dbNow>>

\* One millisecond passes.
DebounceTick ==
    /\ debounceFrame
    /\ dbNow < MaxTicks
    /\ dbNow' = dbNow + 1
    /\ UNCHANGED <<dbMade, dbDuration, dbTimeout, dbTimers, dbNextHandle, dbEvents>>

InitDebounce ==
    /\ dbMade = FALSE
    /\ dbDuration = 0
    /\ dbTimeout = undefinedTimeout
    /\ dbTimers = {}
    /\ dbNextHandle = 1
    /\ dbNow = 0
    /\ dbEvents = <<>>

NextDebounce ==
    \/ \E D \in 0..MaxWindow : DebounceMake(D)
    \/ \E a \in WrapperArgs : DebouncedCall(a)
    \/ \E t \in dbTimers : DebounceTimerFire(t)
    \/ DebounceTick

\* =========================================== offset, isOutOfView, scrollY
\* A page with the element el, its offsetParent box, and document.body, the
\* offsetParent of box.  The page is laid out, and then the helpers are called
\* on it in any order.

Nodes == {"el", "box", "body"}

\* n.offsetParent; "null" ends the chain.
offsetParent(n) ==
    CASE n = "el" -> "box"
      [] n = "box" -> "body"
      [] n = "body" -> "null"

\* document.documentElement.clientWidth, document.documentElement.clientHeight
clientWidth == 2
clientHeight == 2

\* How far a scrollable element scrolls: scrollHeight - offsetHeight.
ScrollRange == MaxCoord + MaxSize + MaxShift

\* The body of the loop of offset, from element p on.
RECURSIVE offsetLoop(_, _, _)
offsetLoop(d, p, acc) ==
    LET q == offsetParent(p)
    IN  IF q = "null" THEN acc
        ELSE offsetLoop(d, q,
                 [left |-> acc.left + d[q].offsetLeft,
                  top |-> acc.top + d[q].offsetTop,
                  scrollLeft |-> acc.scrollLeft - d[q].scrollLeft,
                  scrollTop |-> acc.scrollTop - (d[q].scrollTop - d[q].offsetTop)])

\* offset(el) on the page d
offset(d, el) ==
    LET acc == offsetLoop(d, el, [left |-> d[el].offsetLeft,
                                  top |-> d[el].offsetTop,
                                  scrollLeft |-> d[el].offsetLeft,
                                  scrollTop |-> d[el].offsetTop])
    IN  [left |-> acc.left,
         top |-> acc.top,
         offsetLeft |-> d[el].offsetLeft,
         offsetTop |-> d[el].offsetTop,
         windowLeft |-> acc.scrollLeft,
         windowTop |-> acc.scrollTop,
         width |-> d[el].offsetWidth,
         height |-> d[el].offsetHeight]

\* findClosestScrollableOffsetParent(el); "undefined" when there is none.
RECURSIVE findClosestScrollableOffsetParent(_, _)
findClosestScrollableOffsetParent(d, p) ==
    LET q == offsetParent(p)
    IN  IF q = "null" THEN "undefined"
        ELSE IF d[q].scrollHeight > d[q].offsetHeight THEN q
        ELSE findClosestScrollableOffsetParent(d, q)

\* isOutOfView(el, partially) on the page d
isOutOfView(d, el, partially) ==
    LET elOffset == offset(d, el)
    IN  IF elOffset.windowTop > clientHeight THEN TRUE
        ELSE IF elOffset.windowLeft > clientWidth THEN TRUE
        ELSE IF (elOffset.windowTop + elOffset.height) < 0 THEN TRUE
        ELSE IF (elOffset.windowLeft + elOffset.width) < 0 THEN TRUE
        ELSE IF partially
                /\ (\/ (elOffset.windowTop + elOffset.height) > clientHeight
                    \/ elOffset.windowTop < 0
                    \/ (elOffset.windowLeft + elOffset.width) > clientWidth
                    \/ elOffset.windowLeft < 0)
             THEN TRUE
        ELSE FALSE

\* n.scrollTop = v, as the DOM carries it out: the value is clamped to the
\* range the element scrolls over, which is empty unless its content is
\* higher than the element.
SetScrollTop(d, n, v) ==
    LET range == IF d[n].scrollHeight > d[n].offsetHeight
                 THEN d[n].scrollHeight - d[n].offsetHeight ELSE 0
        c == IF v < 0 THEN 0 ELSE IF v > range THEN range ELSE v
    IN  [d EXCEPT ![n].scrollTop = c]

\* x || y for element references
OrElse(x, y) == IF x # "undefined" THEN x ELSE y

\* scrollY(el, padding, scrollElement): the page it leaves.  padding is 0
\* when it is not given.
scrollY(d, el, padding, scrollElement) ==
    IF ~isOutOfView(d, el, TRUE) THEN d
    ELSE LET elOffset == offset(d, el)
             isPartiallyBelow == (elOffset.windowTop + elOffset.height) > clientHeight
             target == OrElse(findClosestScrollableOffsetParent(d, el), "body")
             scrollTo == IF isPartiallyBelow
                         THEN ((elOffset.offsetTop - clientHeight) + elOffset.height)
                              + padding
                         ELSE d[el].offsetTop - padding
         IN  SetScrollTop(d, target, scrollTo)

\* An element of the page: el is not scrolled itself.
Element(ol, ot, w, h, sl, st, scrollable) ==
    [offsetLeft |-> ol, offsetTop |-> ot, offsetWidth |-> w, offsetHeight |-> h,
     scrollLeft |-> sl, scrollTop |-> st,
     scrollHeight |-> IF scrollable THEN h + ScrollRange ELSE h]

NoGeoCall == [fn |-> "none", partially |-> FALSE, padding |-> 0,
              scrollElement |-> "undefined"]

\* A page of three elements.
Layout(el, box, body) ==
    [n \in Nodes |-> CASE n = "el" -> el [] n = "box" -> box [] n = "body" -> body]

\* The page is laid out: el anywhere near the viewport, the ancestors
\* shifted and scrolled; an element is scrolled only if it is scrollable.
PageLoad ==
    /\ geometryFrame
    /\ geoCall.fn = "unloaded"
    /\ \E elLeft, elTop \in -1..MaxCoord, w, h \in 1..MaxSize,
          boxLeft, boxTop, boxScrollLeft, boxScrollTop, bodyScrollTop \in 0..MaxShift,
          boxScrollable, bodyScrollable \in BOOLEAN :
          /\ boxScrollTop > 0 => boxScrollable
          /\ bodyScrollTop > 0 => bodyScrollable
          /\ dom' = Layout(Element(elLeft, elTop, w, h, 0, 0, FALSE),
                           Element(boxLeft, boxTop, clientWidth, clientHeight,
                                   boxScrollLeft, boxScrollTop, boxScrollable),
                           Element(0, 0, clientWidth, clientHeight,
                                   0, bodyScrollTop, bodyScrollable))
    /\ geoCall' = NoGeoCall
    /\ geoBefore' = dom'
    /\ UNCHANGED <<geoOffset, geoOutOfView>>

\* offset(el) is called.
OffsetCall ==
    /\ geometryFrame
    /\ geoCall.fn # "unloaded"
    /\ geoCall' = [NoGeoCall EXCEPT !.fn = "offset"]
    /\ geoBefore' = dom
    /\ geoOffset' = offset(dom, "el")
    /\ UNCHANGED <<dom, geoOutOfView>>

\* isOutOfView(el, partially) is called.
IsOutOfViewCall(partially) ==
    /\ geometryFrame
    /\ geoCall.fn # "unloaded"
    /\ geoCall' = [NoGeoCall EXCEPT !.fn = "isOutOfView", !.partially = partially]
    /\ geoBefore' = dom
    /\ geoOutOfView' = isOutOfView(dom, "el", partially)
    /\ UNCHANGED <<dom, geoOffset>>

\* scrollY(el, padding, scrollElement) is called.
ScrollYCall(padding, scrollElement) ==
    /\ geometryFrame
    /\ geoCall.fn # "unloaded"
    /\ geoCall' = [NoGeoCall EXCEPT !.fn = "scrollY", !.padding = padding,
                                    !.scrollElement = scrollElement]
    /\ geoBefore' = dom
    /\ dom' = scrollY(dom, "el", padding, scrollElement)
    /\ UNCHANGED <<geoOffset, geoOutOfView>>

InitGeometry ==
    /\ dom = Layout(Element(0, 0, 1, 1, 0, 0, FALSE),
                    Element(0, 0, clientWidth, clientHeight, 0, 0, FALSE),
                    Element(0, 0, clientWidth, clientHeight, 0, 0, FALSE))
    /\ geoCall = [NoGeoCall EXCEPT !.fn = "unloaded"]
    /\ geoBefore = dom
    /\ geoOffset = offset(dom, "el")
    /\ geoOutOfView = FALSE

NextGeometry ==
    \/ PageLoad
    \/ OffsetCall
    \/ \E partially \in BOOLEAN : IsOutOfViewCall(partially)
    \/ \E padding \in 0..MaxShift, scrollElement \in {"undefined", "box", "body"} :
          ScrollYCall(padding, scrollElement)

\* ============================================================= unique
\* The elements of the arrays: the numbers 1 and 2 and the strings "1", "a"
\* and "hasOwnProperty", each with its type and its string form.
UniqueValues ==
    {[t |-> "number", s |-> "1"], [t |-> "number", s |-> "2"],
     [t |-> "string", s |-> "1"], [t |-> "string", s |-> "a"],
     [t |-> "string", s |-> "hasOwnProperty"]}

UniqueArrays == UNION {[1..n -> UniqueValues] : n \in 0..MaxElems}

\* The property name a value is coerced to.
String(val) == val.s

\* cache.hasOwnProperty(val).  The method is looked up on cache first: once
\* cache has an own property of that name, its value true is what is called,
\* and the call throws a TypeError.
hasOwnProperty(c, val) ==
    IF "hasOwnProperty" \in c THEN "TypeError"
    ELSE IF String(val) \in c THEN "true" ELSE "false"

\* The callback of forEach on the element val; st holds cache, uniqueArray
\* and whether an exception is under way.
uniqueCallback(st, val) ==
    LET has == hasOwnProperty(st.cache, val)
    IN  IF has = "TypeError" THEN [st EXCEPT !.threw = TRUE]
        ELSE IF has = "true" THEN st
        ELSE [cache |-> st.cache \cup {String(val)},
              uniqueArray |-> Append(st.uniqueArray, val),
              threw |-> FALSE]

\* arr.forEach(callback), from a given state on.
RECURSIVE forEachUnique(_, _)
forEachUnique(arr, st) ==
    IF arr = <<>> \/ st.threw THEN st
    ELSE forEachUnique(Tail(arr), uniqueCallback(st, Head(arr)))

\* unique(arr): what it returns, or that it threw.
unique(arr) ==
    LET st == forEachUnique(arr, [cache |-> {}, uniqueArray |-> <<>>, threw |-> FALSE])
    IN  [threw |-> st.threw, value |-> IF st.threw THEN <<>> ELSE st.uniqueArray]

\* unique(arr) is called.
UniqueCall(arr) ==
    /\ uniqueFrame
    /\ uqStatus = "idle"
    /\ uqStatus' = "running"
    /\ uqArr' = arr
    /\ uqIdx' = 0
    /\ uqCache' = {}
    /\ uqOut' = <<>>

\* forEach calls the callback on the next element.
UniqueVisit ==
    /\ uniqueFrame
    /\ uqStatus = "running"
    /\ uqIdx < Len(uqArr)
    /\ LET st == uniqueCallback([cache |-> uqCache, uniqueArray |-> uqOut,
                                 threw |-> FALSE], uqArr[uqIdx + 1])
       IN  /\ uqCache' = st.cache
           /\ uqOut' = st.uniqueArray
           /\ uqStatus' = IF st.threw THEN "threw" ELSE "running"
    /\ uqIdx' = uqIdx + 1
    /\ UNCHANGED uqArr

\* return uniqueArray
UniqueReturn ==
    /\ uniqueFrame
    /\ uqStatus = "running"
    /\ uqIdx = Len(uqArr)
    /\ uqStatus' = "returned"
    /\ UNCHANGED <<uqArr, uqIdx, uqCache, uqOut>>

InitUnique ==
    /\ uqStatus = "idle"
    /\ uqArr = <<>>
    /\ uqIdx = 0
    /\ uqCache = {}
    /\ uqOut = <<>>

NextUnique ==
    \/ \E arr \in UniqueArrays : UniqueCall(arr)
    \/ UniqueVisit
    \/ UniqueReturn

\* ========================================================= concatUrls
\* A string is the sequence of its characters: a letter, the slash, the space.
Chars == {"a", "/", " "}
Strings == UNION {[1..n -> Chars] : n \in 0..MaxFragLen}
FragmentLists == UNION {[1..n -> Strings] : n \in 1..MaxFragments}

\* The two ways of passing the fragments fs: one array, or one argument each.
AsArray(fs) == <<[isArray |-> TRUE, items |-> fs, str |-> <<>>]>>
AsArguments(fs) == [i \in DOMAIN fs |-> [isArray |-> FALSE, items |-> <<>>, str |-> fs[i]]]

\* s.trim()
RECURSIVE trim(_)
trim(s) ==
    IF s = <<>> THEN s
    ELSE IF Head(s) = " " THEN trim(Tail(s))
    ELSE IF s[Len(s)] = " " THEN trim(SubSeq(s, 1, Len(s) - 1))
    ELSE s

\* s[i], counting from 0: "undefined" outside the string.
CharAt(s, i) == IF i + 1 \in DOMAIN s THEN s[i + 1] ELSE "undefined"

\* s.substr(start), s.substr(0, length)
substrFrom(s, start) == SubSeq(s, start + 1, Len(s))
substrTo(s, length) == SubSeq(s, 1, length)

\* Array.isArray(fragments) ? fragments : Array.prototype.slice.call(arguments)
fragmentsOf(arguments) ==
    IF arguments[1].isArray THEN arguments[1].items
    ELSE [i \in DOMAIN arguments |-> arguments[i].str]

\* Line 188: the first fragment, trimmed, and a slash unless the character
\* of the trimmed string at the untrimmed length - 1 is one.
concatFirst(f) ==
    IF CharAt(trim(f), Len(f) - 1) = "/" THEN trim(f) ELSE trim(f) \o <<"/">>

\* The forEach callback: fragment + ''.trim() is fragment + ''.
concatFragment(cString, fragment0) ==
    IF fragment0 = <<>> THEN cString
    ELSE LET fragment1 == fragment0 \o trim(<<>>)
             fragment == IF CharAt(fragment1, 0) = "/" THEN substrFrom(fragment1, 1)
                         ELSE fragment1
         IN  cString \o (IF CharAt(fragment, Len(fragment) - 1) = "/" THEN fragment
                         ELSE fragment \o <<"/">>)

\* fragments.slice(1).forEach(callback), from fragment i on.
RECURSIVE concatRest(_, _, _)
concatRest(fs, i, cString) ==
    IF i > Len(fs) THEN cString
    ELSE concatRest(fs, i + 1, concatFragment(cString, fs[i]))

\* concatUrls called with the given arguments
concatUrls(arguments) ==
    LET fs == fragmentsOf(arguments)
        cString == concatRest(fs, 2, concatFirst(fs[1]))
    IN  substrTo(cString, Len(cString) - 1)

\* concatUrls is called, with one array or with one argument per fragment.
ConcatCall(oneArray) ==
    /\ concatFrame
    /\ cuStatus = "idle"
    /\ cuStatus' = "running"
    /\ \E fs \in FragmentLists :
          cuArguments' = IF oneArray THEN AsArray(fs) ELSE AsArguments(fs)
    /\ cuFragments' = fragmentsOf(cuArguments')
    /\ cuString' = concatFirst(cuFragments'[1])
    /\ cuIdx' = 1
    /\ UNCHANGED cuResult

\* forEach calls the callback on the next fragment.
ConcatVisit ==
    /\ concatFrame
    /\ cuStatus = "running"
    /\ cuIdx < Len(cuFragments)
    /\ cuString' = concatFragment(cuString, cuFragments[cuIdx + 1])
    /\ cuIdx' = cuIdx + 1
    /\ UNCHANGED <<cuStatus, cuArguments, cuFragments, cuResult>>

\* return cString.substr(0, cString.length - 1)
ConcatReturn ==
    /\ concatFrame
    /\ cuStatus = "running"
    /\ cuIdx = Len(cuFragments)
    /\ cuResult' = substrTo(cuString, Len(cuString) - 1)
    /\ cuStatus' = "returned"
    /\ UNCHANGED <<cuArguments, cuFragments, cuIdx, cuString>>

InitConcat ==
    /\ cuStatus = "idle"
    /\ cuArguments = <<>>
    /\ cuFragments = <<>>
    /\ cuIdx = 0
    /\ cuString = <<>>
    /\ cuResult = <<>>

NextConcat ==
    \/ ConcatCall(TRUE)
    \/ ConcatCall(FALSE)
    \/ ConcatVisit
    \/ ConcatReturn

\* ------------------------------------------------------ specifications
Init == InitRetry /\ InitAjax /\ InitMemoize /\ InitOverride /\ InitThrottle /\ InitDebounce /\ InitGeometry /\ InitUnique /\ InitConcat

SpecRetry == Init /\ [][NextRetry]_vars

SpecRetryOne == Init /\ [][NextRetryOne]_vars

SpecAjax == Init /\ [][NextAjax]_vars

SpecMemoize == Init /\ [][NextMemoize]_vars

SpecOverride == Init /\ [][NextOverride]_vars

SpecThrottle == Init /\ [][NextThrottle]_vars

SpecDebounce == Init /\ [][NextDebounce]_vars

SpecGeometry == Init /\ [][NextGeometry]_vars

SpecUnique == Init /\ [][NextUnique]_vars

SpecConcat == Init /\ [][NextConcat]_vars

\* ------------------------------------------------------- ajax: claims
\* ------------------------------------------------------- ajax: claims
\* C7: once the transport has dispatched a completion event (readystatechange
\* at readyState 4, load, error, timeout, abort) the callback has been invoked
\* exactly once, whatever events followed and whether or not it raised.
C7_CallbackOnce == fired > 0 => Len(cbLog) = 1

\* C8: on the failure paths the callback receives status null and the literal
\* response of the path: "Error", "Timeout" or "Abort".
C8_FailureSentinels ==
    outcome \in {"Error", "Timeout", "Abort"} =>
        \A i \in DOMAIN cbLog :
            cbLog[i].status = "null" /\ cbLog[i].response = outcome

\* A header the caller supplied, a body that is present: not undefined, not empty.
Supplied(name) == params.headers[name] \notin {"undefined", ""}
BodyPresent == params.body \notin {"undefined", ""}

\* C9: of a request that was sent.  With a body: X-Requested-With is among the
\* headers set, and Content-Type 'application/x-www-form-urlencoded' is set
\* exactly when the caller supplied no Content-Type and the body is not
\* FormData.  A supplied Content-Type (and any supplied header) is set as
\* supplied.  Without a body neither default is added.  The method is the one
\* given, else POST with a body and GET without.
C9_HeaderDefaults ==
    phase # "idle" =>
        /\ BodyPresent =>
               /\ reqHeaders["X-Requested-With"] =
                      IF Supplied("X-Requested-With")
                      THEN params.headers["X-Requested-With"] ELSE "XMLHttpRequest"
               /\ reqHeaders["Content-Type"] = "application/x-www-form-urlencoded"
                      <=> (~Supplied("Content-Type") /\ params.body # "FormData")
        /\ \A name \in HeaderNames :
               Supplied(name) => reqHeaders[name] = params.headers[name]
        /\ ~BodyPresent => reqHeaders = params.headers
        /\ reqMethod = IF params.method \notin {"undefined", ""} THEN params.method
                       ELSE IF BodyPresent THEN "POST" ELSE "GET"
        /\ reqBody = params.body

\* Witness of C9: a string body with a Content-Type from the caller, kept, and
\* the X-Requested-With default added, sent with the default method.
C9_Witness ==
    /\ phase = "sent"
    /\ params.body = "a=1"
    /\ params.headers["Content-Type"] = "text/plain"
    /\ params.headers["X-Requested-With"] = "undefined"
    /\ params.method = "undefined"
    /\ reqHeaders["Content-Type"] = "text/plain"
    /\ reqHeaders["X-Requested-With"] = "XMLHttpRequest"
    /\ reqMethod = "POST"

\* ---------------------------------------------------- memoize: claims
\* The key a key argument stands for: undefined and null are keys of their
\* own, every other argument is its string form.
KeyOf(k) == IF k \in {"undefined", "null"} THEN k ELSE "string:" \o toString(k)

CallsWith(key) == {i \in DOMAIN memoLog : KeyOf(memoLog[i].key) = key}
InvocationsWith(key) == {i \in CallsWith(key) : memoLog[i].invoked}

\* C10: for every key that has been called with, func has been invoked exactly
\* once: the first call with the key invoked func, and every later call with it
\* returned the result of that invocation without invoking func.
C10_InvokedOncePerKey ==
    \A k \in KeyArgs :
        LET with == CallsWith(KeyOf(k))
        IN  with # {} =>
                LET first == CHOOSE i \in with : \A j \in with : i <= j
                IN  /\ InvocationsWith(KeyOf(k)) = {first}
                    /\ \A i \in with : memoLog[i].ret = memoLog[first].ret

\* C21: a memoized function returns only values func returned: the first call
\* with a key invokes func, whatever the string form of the key, and every
\* call returns what func returned on the first call with its key.
C21_OnlyFuncResults ==
    \A i \in DOMAIN memoLog :
        LET with == CallsWith(KeyOf(memoLog[i].key))
            first == CHOOSE j \in with : \A l \in with : j <= l
            returned == {memoLog[j].ret : j \in {l \in 1..i : memoLog[l].invoked}}
        IN  /\ memoLog[first].invoked
            /\ memoLog[i].ret \in returned
            /\ memoLog[i].ret = memoLog[first].ret

\* --------------------------------------------------- override: claims
\* C11: one invocation of the wrapper calls overrider exactly once, with a
\* state whose original is funcToOverride, and returns what overrider returns;
\* callOverridden passes funcToOverride the thisArg and argsAsArray that
\* overrider has left in state, and callOriginal passes it the receiver and
\* the arguments the wrapper was invoked with, whatever overrider did to state.
C11_Forwarders ==
    /\ ovPhase = "idle" => Len(gLog) = 0
    /\ ovPhase # "idle" => Len(gLog) = 1 /\ gLog[1].original = "funcToOverride"
    /\ ovPhase = "done" => spyResult = gResult
    /\ \A i \in DOMAIN fLog :
          /\ fLog[i].via = "callOverridden" =>
                /\ fLog[i].thisArg = fLog[i].sees.thisArg
                /\ fLog[i].args = fLog[i].sees.argsAsArray
          /\ fLog[i].via = "callOriginal" =>
                /\ fLog[i].thisArg = spy.receiver
                /\ fLog[i].args = spy.arguments

\* overrider changed the array in place, and then called both forwarders: the
\* first got the changed arguments, the second was called after the change.
C11_Witness ==
    /\ ovPhase = "done"
    /\ spy.state.argsAsArray = 2
    /\ \E i, j \in DOMAIN fLog :
          /\ fLog[i].via = "callOverridden"
          /\ fLog[i].args # spy.arguments
          /\ fLog[j].via = "callOriginal"
          /\ fLog[j].sees.argsAsArray # spy.arguments

\* ------------------------------------------------- throttle: claims
\* C12: a throttled wrapper has at most one timer pending, a call made while
\* an invocation is pending schedules nothing, and any two invocations of
\* func are at least throttleAmount ms apart.
C12_Throttled ==
    /\ Cardinality(thTimers) <= 1
    /\ \A i \in DOMAIN thCalls : thCalls[i].pending => ~thCalls[i].scheduled
    /\ \A i, j \in DOMAIN thLog :
          i < j => thLog[j].at - thLog[i].at >= thAmount

\* Two invocations of func, one window apart, and a call that was suppressed.
C12_Witness ==
    /\ thAmount = MaxWindow
    /\ Len(thLog) = 2
    /\ thLog[2].at - thLog[1].at = thAmount
    /\ \E i \in DOMAIN thCalls : thCalls[i].pending /\ ~thCalls[i].scheduled

\* ------------------------------------------------- debounce: claims
\* C13: a debounced wrapper has at most one timer pending; after a wrapper
\* call exactly one timer is pending, due duration ms after that call; and
\* func is invoked only by the timer of the latest wrapper call, once per
\* burst, no earlier than duration ms after that call.
C13_Debounced ==
    /\ Cardinality(dbTimers) <= 1
    /\ \A i \in DOMAIN dbEvents :
          dbEvents[i].type = "invoke" =>
             /\ i > 1
             /\ dbEvents[i - 1].type = "call"
             /\ dbEvents[i].due = dbEvents[i - 1].at + dbDuration
             /\ dbEvents[i].at >= dbEvents[i - 1].at + dbDuration
    /\ (dbEvents # <<>> /\ dbEvents[Len(dbEvents)].type = "call") =>
          \E t \in dbTimers :
             /\ dbTimers = {t}
             /\ t.due = dbEvents[Len(dbEvents)].at + dbDuration

\* A burst of two calls one millisecond apart, and then the one invocation of
\* func, duration ms after the second call.
C13_Witness ==
    /\ dbDuration = MaxWindow
    /\ Len(dbEvents) = 3
    /\ dbEvents[1].type = "call" /\ dbEvents[2].type = "call"
    /\ dbEvents[2].at = dbEvents[1].at + 1
    /\ dbEvents[3].type = "invoke"
    /\ dbEvents[3].at = dbEvents[2].at + dbDuration
    /\ dbTimers = {}

\* ------------------------------- offset, isOutOfView, scrollY: claims
\* el and its offsetParent ancestors, nearest first.
RECURSIVE Ancestors(_)
Ancestors(n) ==
    IF offsetParent(n) = "null" THEN <<>>
    ELSE <<offsetParent(n)>> \o Ancestors(offsetParent(n))

\* The sum of property f over the elements ns of page d.
RECURSIVE Sum(_, _, _)
Sum(d, ns, f) == IF ns = <<>> THEN 0 ELSE d[Head(ns)][f] + Sum(d, Tail(ns), f)

\* Where el is on the page, and in the window: the page position less what
\* its ancestors are scrolled by.
PageLeft(d) == Sum(d, <<"el">> \o Ancestors("el"), "offsetLeft")
PageTop(d) == Sum(d, <<"el">> \o Ancestors("el"), "offsetTop")
WindowLeft(d) == PageLeft(d) - Sum(d, Ancestors("el"), "scrollLeft")
WindowTop(d) == PageTop(d) - Sum(d, Ancestors("el"), "scrollTop")
WindowRight(d) == WindowLeft(d) + d["el"].offsetWidth
WindowBottom(d) == WindowTop(d) + d["el"].offsetHeight

\* el's rectangle in the window against the viewport.
VisibleVertically(d) == 0 <= WindowTop(d) /\ WindowBottom(d) <= clientHeight
VisibleHorizontally(d) == 0 <= WindowLeft(d) /\ WindowRight(d) <= clientWidth
FullyVisible(d) == VisibleVertically(d) /\ VisibleHorizontally(d)
EntirelyOutside(d) ==
    \/ WindowTop(d) > clientHeight
    \/ WindowBottom(d) < 0
    \/ WindowLeft(d) > clientWidth
    \/ WindowRight(d) < 0

\* The nearest offset ancestor of el that has more content than height,
\* document.body if there is none.
RECURSIVE FirstScrollable(_, _)
FirstScrollable(d, ns) ==
    IF ns = <<>> THEN "body"
    ELSE IF d[Head(ns)].scrollHeight > d[Head(ns)].offsetHeight THEN Head(ns)
    ELSE FirstScrollable(d, Tail(ns))

\* C14: scrollY(el, padding) leaves the page as it is when el is fully
\* visible, and when el is clipped only horizontally; when el is clipped
\* vertically it changes nothing but the scrollTop of the nearest scrollable
\* offset ancestor (document.body if there is none), down when the bottom edge
\* is clipped and up when the top edge is, and el is then fully visible
\* vertically.
C14_ScrollY ==
    (geoCall.fn = "scrollY" /\ geoCall.scrollElement = "undefined") =>
       LET target == FirstScrollable(geoBefore, Ancestors("el"))
       IN  /\ FullyVisible(geoBefore) => dom = geoBefore
           /\ (VisibleVertically(geoBefore) /\ ~VisibleHorizontally(geoBefore)) =>
                 dom = geoBefore
           /\ ~VisibleVertically(geoBefore) =>
                 /\ dom = [geoBefore EXCEPT ![target].scrollTop = dom[target].scrollTop]
                 /\ WindowBottom(geoBefore) > clientHeight =>
                       dom[target].scrollTop >= geoBefore[target].scrollTop
                 /\ WindowTop(geoBefore) < 0 =>
                       dom[target].scrollTop <= geoBefore[target].scrollTop
                 /\ VisibleVertically(dom)

\* C15: when scrollY is given a scrollElement and el is not fully visible, no
\* element other than that scrollElement has its scroll position changed.
C15_ScrollElement ==
    (/\ geoCall.fn = "scrollY"
     /\ geoCall.scrollElement # "undefined"
     /\ ~FullyVisible(geoBefore)) =>
       \A n \in Nodes \ {geoCall.scrollElement} :
          /\ dom[n].scrollTop = geoBefore[n].scrollTop
          /\ dom[n].scrollLeft = geoBefore[n].scrollLeft

\* C16: offset(el) returns as left and top the sums of offsetLeft and
\* offsetTop over el and its offsetParent ancestors, as windowLeft and
\* windowTop those sums less the summed scrollLeft and scrollTop of the
\* ancestors, and as width and height el's offsetWidth and offsetHeight.
C16_Offset ==
    geoCall.fn = "offset" =>
       /\ geoOffset.left = PageLeft(geoBefore)
       /\ geoOffset.top = PageTop(geoBefore)
       /\ geoOffset.windowLeft = WindowLeft(geoBefore)
       /\ geoOffset.windowTop = WindowTop(geoBefore)
       /\ geoOffset.width = geoBefore["el"].offsetWidth
       /\ geoOffset.height = geoBefore["el"].offsetHeight

\* C17: isOutOfView(el, partially) is true exactly when el's rectangle in the
\* window lies entirely beyond one side of the viewport or, in partial mode,
\* is not within the viewport; so it is true in partial mode whenever it is
\* true otherwise, and false in partial mode exactly when el is fully visible.
C17_OutOfView ==
    /\ geoCall.fn = "isOutOfView" =>
          geoOutOfView = (\/ EntirelyOutside(geoBefore)
                          \/ geoCall.partially /\ ~FullyVisible(geoBefore))
    /\ geoCall.fn # "unloaded" =>
          /\ isOutOfView(dom, "el", FALSE) => isOutOfView(dom, "el", TRUE)
          /\ ~isOutOfView(dom, "el", TRUE) <=> FullyVisible(dom)

\* ----------------------------------------------------- unique: claims
\* The elements of arr whose string form has not occurred before them.
RECURSIVE FirstOccurrences(_, _)
FirstOccurrences(arr, seen) ==
    IF arr = <<>> THEN <<>>
    ELSE IF String(Head(arr)) \in seen THEN FirstOccurrences(Tail(arr), seen)
    ELSE <<Head(arr)>> \o FirstOccurrences(Tail(arr), seen \cup {String(Head(arr))})

\* C18: unique(arr) returns, for every arr, the first occurrence of each
\* string form in arr, in order: no string form twice, every string form of
\* arr present, and unique of the result is the result.
C18_Unique ==
    /\ uqStatus # "threw"
    /\ uqStatus = "returned" =>
          /\ uqOut = FirstOccurrences(uqArr, {})
          /\ \A i, j \in DOMAIN uqOut : i # j => String(uqOut[i]) # String(uqOut[j])
          /\ \A i \in DOMAIN uqArr : \E j \in DOMAIN uqOut :
                String(uqOut[j]) = String(uqArr[i])
          /\ unique(uqOut) = [threw |-> FALSE, value |-> uqOut]

\* ------------------------------------------------- concatUrls: claims
\* A fragment without the slashes at its ends.
RECURSIVE StripLeadingSlashes(_)
StripLeadingSlashes(s) ==
    IF s # <<>> /\ Head(s) = "/" THEN StripLeadingSlashes(Tail(s)) ELSE s

RECURSIVE StripTrailingSlashes(_)
StripTrailingSlashes(s) ==
    IF s # <<>> /\ s[Len(s)] = "/"
    THEN StripTrailingSlashes(SubSeq(s, 1, Len(s) - 1)) ELSE s

\* What a fragment contributes: itself without surrounding whitespace and
\* without the slashes at its ends (the first fragment keeps a leading slash).
Core(fs, i) ==
    IF i = 1 THEN StripTrailingSlashes(trim(fs[i]))
    ELSE StripLeadingSlashes(StripTrailingSlashes(trim(fs[i])))

\* The fragment has a character that is neither slash nor whitespace.
HasContent(f) == \E i \in DOMAIN f : f[i] = "a"

\* The contributions from fragment i on, each preceded by one slash.
RECURSIVE JoinFrom(_, _)
JoinFrom(fs, i) ==
    IF i > Len(fs) THEN <<>> ELSE <<"/">> \o Core(fs, i) \o JoinFrom(fs, i + 1)

\* C19: concatUrls returns a string that does not end in a slash; when every
\* fragment has content, the result is the fragments, without the whitespace
\* around them and the slashes at their ends, with one slash between
\* consecutive ones; and an array of fragments gives the same result as the
\* fragments passed one by one.
C19_ConcatUrls ==
    cuStatus = "returned" =>
       /\ cuResult = <<>> \/ cuResult[Len(cuResult)] # "/"
       /\ (\A i \in DOMAIN cuFragments : HasContent(cuFragments[i])) =>
             cuResult = Core(cuFragments, 1) \o JoinFrom(cuFragments, 2)
       /\ concatUrls(AsArray(cuFragments)) = concatUrls(AsArguments(cuFragments))
====
